---- MODULE Spec2Model ----
(***************************************************************************)
(* A model of fabricator/fabricator.py: the Fabricator node tree with its  *)
(* two modes (builder, started), method validation, endpoint registration  *)
(* and the request pipeline of FabricatorEndpoint.                         *)
(*                                                                         *)
(* Python strings are sequences of one-character strings, so that upper(), *)
(* startswith(), replace() and the token regex are computed, not assumed.  *)
(***************************************************************************)
EXTENDS Integers, Sequences, FiniteSets, TLC

\* ------------------------------------------------------------------ bounds
\* Fabricator instances that may exist (the root and its groups).
MaxNodes == 3
\* Calls the client makes in one run, the start() that starts the tree not
\* counted.
MaxCalls == 3
\* Calls the client makes on a tree with configured groups.
MaxChainCalls == 4
\* Entries of a methods list handed to the validation.
MaxMethods == 2

\* ----------------------------------------------------------------- strings
LowerLetters == <<"a","b","c","d","e","f","g","h","i","j","k","l","m",
                  "n","o","p","q","r","s","t","u","v","w","x","y","z">>
UpperLetters == <<"A","B","C","D","E","F","G","H","I","J","K","L","M",
                  "N","O","P","Q","R","S","T","U","V","W","X","Y","Z">>

\* str.upper() on one character.
UpperChar(c) ==
    IF \E i \in DOMAIN LowerLetters : LowerLetters[i] = c
    THEN UpperLetters[CHOOSE i \in DOMAIN LowerLetters : LowerLetters[i] = c]
    ELSE c

\* str.upper()
StrUpper(s) == [i \in 1..Len(s) |-> UpperChar(s[i])]

\* str.lower() on one character.
LowerChar(c) ==
    IF \E i \in DOMAIN UpperLetters : UpperLetters[i] = c
    THEN LowerLetters[CHOOSE i \in DOMAIN UpperLetters : UpperLetters[i] = c]
    ELSE c

\* str.lower()
StrLower(s) == [i \in 1..Len(s) |-> LowerChar(s[i])]

\* str.capitalize()
StrCapitalize(s) ==
    [i \in 1..Len(s) |-> IF i = 1 THEN UpperChar(s[i]) ELSE LowerChar(s[i])]

\* str.startswith(prefix)
StartsWith(s, prefix) ==
    Len(prefix) <= Len(s) /\ SubSeq(s, 1, Len(prefix)) = prefix

\* does k occur in s at position i
OccursAt(s, i, k) ==
    i + Len(k) - 1 <= Len(s) /\ SubSeq(s, i, i + Len(k) - 1) = k

\* str.replace(k, v) for a non-empty k: every non-overlapping occurrence,
\* scanning left to right.
RECURSIVE ReplaceFrom(_, _, _, _)
ReplaceFrom(s, i, k, v) ==
    IF i > Len(s) THEN <<>>
    ELSE IF OccursAt(s, i, k) THEN v \o ReplaceFrom(s, i + Len(k), k, v)
    ELSE <<s[i]>> \o ReplaceFrom(s, i + 1, k, v)

StrReplace(s, k, v) == ReplaceFrom(s, 1, k, v)

\* The character class [A-z_] of the path-token regex: A-Z, a-z and the
\* ASCII characters between "Z" and "a" (which include "_"; the backslash
\* and the backquote, also in that range, occur in no path of this model).
TokenChars ==
    {LowerLetters[i] : i \in DOMAIN LowerLetters}
      \cup {UpperLetters[i] : i \in DOMAIN UpperLetters}
      \cup {"[", "]", "^", "_"}

\* last index of the run of token characters starting at i (i-1 if none)
RECURSIVE TokenEnd(_, _)
TokenEnd(s, i) ==
    IF i <= Len(s) /\ s[i] \in TokenChars THEN TokenEnd(s, i + 1) ELSE i - 1

\* re.findall('(:[A-z_]+)', s): the tokens, in order, duplicates kept.
RECURSIVE FindAllFrom(_, _)
FindAllFrom(s, i) ==
    IF i > Len(s) THEN <<>>
    ELSE IF s[i] = ":" /\ TokenEnd(s, i + 1) >= i + 1
         THEN <<SubSeq(s, i, TokenEnd(s, i + 1))>>
                  \o FindAllFrom(s, TokenEnd(s, i + 1) + 1)
         ELSE FindAllFrom(s, i + 1)

FindTokens(s) == FindAllFrom(s, 1)

DigitChars == <<"0","1","2","3","4","5","6","7","8","9">>

\* str(i) for a natural number
RECURSIVE IntToStr(_)
IntToStr(i) ==
    IF i < 10 THEN <<DigitChars[i + 1]>>
    ELSE IntToStr(i \div 10) \o <<DigitChars[(i % 10) + 1]>>

\* Call-time argument values: a str or an int.
StrVal(s) == [t |-> "str", s |-> s, i |-> 0]
IntVal(i) == [t |-> "int", s |-> <<>>, i |-> i]

\* str(v)
StrOf(v) == IF v.t = "int" THEN IntToStr(v.i) ELSE v.s

\* ------------------------------------------------------------ HTTPMethods
M_GET     == <<"G","E","T">>
M_POST    == <<"P","O","S","T">>
M_PUT     == <<"P","U","T">>
M_PATCH   == <<"P","A","T","C","H">>
M_DELETE  == <<"D","E","L","E","T","E">>
M_OPTIONS == <<"O","P","T","I","O","N","S">>
M_HEAD    == <<"H","E","A","D">>
M_CONNECT == <<"C","O","N","N","E","C","T">>
M_TRACE   == <<"T","R","A","C","E">>

\* The values of the nine members of the enum.
HTTPMethodValues ==
    {M_GET, M_POST, M_PUT, M_PATCH, M_DELETE, M_OPTIONS, M_HEAD, M_CONNECT,
     M_TRACE}

\* HTTPMethods.all(): the member names (each member is named as its value).
HTTPMethods_all == HTTPMethodValues

\* A method is given as a plain str or as a member of the enum.
MStr(s)  == [kind |-> "str", value |-> s]
MEnum(s) == [kind |-> "enum", value |-> s]

\* HTTPMethods(m): the member whose value is exactly m; ValueError otherwise.
HTTPMethods_lookup(m) ==
    IF m.value \in HTTPMethodValues
    THEN [ok |-> TRUE, member |-> MEnum(m.value)]
    ELSE [ok |-> FALSE, member |-> m]

\* a == b as Python evaluates it when a or b may be a member:
\* HTTPMethods.__eq__ is identity or value == other (also when reflected).
HTTPMethods_eq(a, b) ==
    IF a.kind = "enum" /\ b.kind = "enum" THEN a.value = b.value
    ELSE a.value = b.value

\* m in methods
MethodIn(m, methods) ==
    \E i \in DOMAIN methods : HTTPMethods_eq(methods[i], m)

RECURSIVE check_valid_methods_from(_, _)
check_valid_methods_from(methods, i) ==
    IF i > Len(methods) THEN [exc |-> "none", methods |-> methods]
    ELSE IF methods[i].kind = "enum"
         THEN check_valid_methods_from(methods, i + 1)
    ELSE IF HTTPMethods_lookup(methods[i]).ok
         THEN check_valid_methods_from(
                  [methods EXCEPT ![i] = HTTPMethods_lookup(methods[i]).member],
                  i + 1)
    ELSE [exc |-> "FabricatorNotImplementedError", methods |-> methods]

\* check_valid_methods(methods): the list after the in-place replacement, or
\* the error raised at the first entry that is no member's value.
check_valid_methods(methods) == check_valid_methods_from(methods, 1)

\* ------------------------------------------------------------------- names
\* Names under which children are registered and which are looked up.
N_x         == <<"x">>
N_y         == <<"y">>
N_get       == <<"g","e","t">>
N_all       == <<"a","l","l">>
N_create    == <<"c","r","e","a","t","e">>
N_overwrite == <<"o","v","e","r","w","r","i","t","e">>
N_update    == <<"u","p","d","a","t","e">>
N_delete    == <<"d","e","l","e","t","e">>
\* the builder operations of Fabricator
N_group            == <<"g","r","o","u","p">>
N_start            == <<"s","t","a","r","t">>
N_register         == <<"r","e","g","i","s","t","e","r">>
N_standard         == <<"s","t","a","n","d","a","r","d">>
N_add_header       == <<"a","d","d","_","h","e","a","d","e","r">>
N_set_handler      == <<"s","e","t","_","h","a","n","d","l","e","r">>
N_set_auth_handler ==
    <<"s","e","t","_","a","u","t","h","_","h","a","n","d","l","e","r">>

\* The names Python finds as methods of Fabricator before __getattr__ is
\* consulted.
BuilderNames ==
    {N_group, N_start, N_register, N_standard, N_add_header, N_set_handler,
     N_set_auth_handler}

\* keyword names of the builder calls
K_name            == <<"n","a","m","e">>
K_path            == <<"p","a","t","h">>
K_methods         == <<"m","e","t","h","o","d","s">>
K_prefix          == <<"p","r","e","f","i","x">>
K_value           == <<"v","a","l","u","e">>
K_handler         == <<"h","a","n","d","l","e","r">>
K_auth_handler    == <<"a","u","t","h","_","h","a","n","d","l","e","r">>
K_headers         == <<"h","e","a","d","e","r","s">>
K_required_params ==
    <<"r","e","q","u","i","r","e","d","_","p","a","r","a","m","s">>
K_with_param      == <<"w","i","t","h","_","p","a","r","a","m">>
K_id              == <<"i","d">>

\* an argument that is neither a str nor an int (a list, a dict, a callable)
ObjVal == [t |-> "obj", s |-> <<"<","o","b","j",">">>, i |-> 0]

\* ------------------------------------------------------------- dictionaries
\* A dict is a set of <<key, value>> pairs with unique keys.
HasKey(d, k)  == \E p \in d : p[1] = k
GetKey(d, k)  == (CHOOSE p \in d : p[1] = k)[2]
DelKey(d, k)  == {p \in d : p[1] # k}
SetKey(d, k, v) == DelKey(d, k) \cup {<<k, v>>}
Keys(d)       == {p[1] : p \in d}
\* dict.update(e)
DictUpdate(d, e) == {p \in d : ~HasKey(e, p[1])} \cup e

\* An optional dict: None, or a dict (possibly empty).
NoneDict   == [none |-> TRUE, map |-> {}]
SomeDict(m) == [none |-> FALSE, map |-> m]

\* ----------------------------------------------------------------- objects
\* Callables are named; "None" is the absent callable.
None == "None"

\* Fabricator.__init__
Fabricator(base_url, auth_handler, headers, handler, parent) ==
    [parent          |-> parent,
     base_url        |-> base_url,
     auth_handler    |-> auth_handler,
     headers         |-> headers,
     default_handler |-> handler,
     endpoints       |-> [k \in {} |-> 0],
     started         |-> FALSE]

\* FabricatorEndpoint.__init__; a child of a node is an endpoint or a group
\* (another Fabricator, named by its index in the tree).
FabricatorEndpoint(parent, name, path, handler, methods, auth_handler, headers, required_params) ==
    [kind            |-> "endpoint",
     node            |-> 0,
     parent          |-> parent,
     name            |-> name,
     path            |-> path,
     handler         |-> handler,
     methods         |-> methods,
     auth_handler    |-> auth_handler,
     headers         |-> headers,
     required_params |-> required_params]

GroupChild(parent, name, id) ==
    [kind            |-> "group",
     node            |-> id,
     parent          |-> parent,
     name            |-> name,
     path            |-> <<>>,
     handler         |-> None,
     methods         |-> <<>>,
     auth_handler    |-> None,
     headers         |-> NoneDict,
     required_params |-> <<>>]

\* the value that stands for "no child" in a result
NoChild == GroupChild(0, <<>>, 0)

\* --------------------------------------------------------- started state
\* Fabricator._find_root: climb the parent links (0 is "no parent").
RECURSIVE find_root(_, _)
find_root(ns, n) ==
    IF ns[n].parent # 0 THEN find_root(ns, ns[n].parent) ELSE n

\* Fabricator._is_started: true if this node or any ancestor is marked.
RECURSIVE is_started(_, _)
is_started(ns, n) ==
    IF n = 0 THEN FALSE
    ELSE IF ns[n].started THEN TRUE
    ELSE is_started(ns, ns[n].parent)

\* ------------------------------------------------------- resolution chain
\* The handler of the farthest ancestor that has one.
RECURSIVE climb_handler_from_root(_, _)
climb_handler_from_root(ns, n) ==
    IF n = 0 THEN None
    ELSE IF climb_handler_from_root(ns, ns[n].parent) # None
    THEN climb_handler_from_root(ns, ns[n].parent)
    ELSE ns[n].default_handler

RECURSIVE climb_handler(_, _)
climb_handler(ns, n) ==
    IF n = 0 THEN None
    ELSE IF ns[n].default_handler # None THEN ns[n].default_handler
    ELSE climb_handler(ns, ns[n].parent)

\* FabricatorEndpoint._get_response_handler
get_response_handler(ns, ep) ==
    IF ep.handler # None THEN ep.handler
    ELSE IF climb_handler(ns, ep.parent) # None
         THEN climb_handler(ns, ep.parent)
    ELSE "noop_response_handler"

RECURSIVE climb_auth_handler(_, _)
climb_auth_handler(ns, n) ==
    IF n = 0 THEN None
    ELSE IF ns[n].auth_handler # None THEN ns[n].auth_handler
    ELSE climb_auth_handler(ns, ns[n].parent)

\* FabricatorEndpoint._get_auth_handler (the callable that is wrapped)
get_auth_handler(ns, ep) ==
    IF ep.auth_handler # None THEN ep.auth_handler
    ELSE IF climb_auth_handler(ns, ep.parent) # None
         THEN climb_auth_handler(ns, ep.parent)
    ELSE "noop_auth_handler"

\* The maps of all levels merged, the nearer level winning.
RECURSIVE climb_headers_merged(_, _)
climb_headers_merged(ns, n) ==
    IF n = 0 THEN NoneDict
    ELSE SomeDict(DictUpdate(climb_headers_merged(ns, ns[n].parent).map,
                             ns[n].headers.map))

RECURSIVE climb_headers(_, _)
climb_headers(ns, n) ==
    IF n = 0 THEN NoneDict
    ELSE IF ~ns[n].headers.none THEN ns[n].headers
    ELSE climb_headers(ns, ns[n].parent)

\* FabricatorEndpoint._get_headers: own, else the nearest ancestor's that is
\* not None, else (or if that one is empty) the empty dict.
get_headers(ns, ep) ==
    IF ~ep.headers.none THEN ep.headers.map
    ELSE climb_headers(ns, ep.parent).map

\* The base_url values of the chain, the endpoint's own node first.
RECURSIVE climb_base_url_leaf_first(_, _)
climb_base_url_leaf_first(ns, n) ==
    IF n = 0 THEN <<>>
    ELSE ns[n].base_url \o climb_base_url_leaf_first(ns, ns[n].parent)

\* the base_url values of the chain, root first
RECURSIVE climb_base_url(_, _)
climb_base_url(ns, n) ==
    IF n = 0 THEN <<>>
    ELSE climb_base_url(ns, ns[n].parent) \o ns[n].base_url

\* url_params is a list of <<token, value>> in insertion order
RECURSIVE substitute(_, _, _)
substitute(path, url_params, i) ==
    IF i > Len(url_params) THEN path
    ELSE substitute(StrReplace(path, url_params[i][1], StrOf(url_params[i][2])),
                    url_params, i + 1)

\* FabricatorEndpoint._construct_url
construct_url(ns, ep, url_params) ==
    climb_base_url(ns, ep.parent) \o substitute(ep.path, url_params, 1)

\* ------------------------------------------------------- request pipeline
\* What one call did: the exception that left it ("none" if it returned),
\* the param of a FabricatorParamValidationError, what it returned, the
\* child a lookup yielded, the requests handed to requests.request, and
\* the (handler, response) applications of a response handler.
Outcome(exc, param, ret, child, reqs, handled) ==
    [exc |-> exc, param |-> param, ret |-> ret, child |-> child,
     reqs |-> reqs, handled |-> handled]

Raised(exc)          == Outcome(exc, <<>>, "nothing", NoChild, <<>>, <<>>)
RaisedParam(exc, p)  == Outcome(exc, p, "nothing", NoChild, <<>>, <<>>)
Returned(ret)        == Outcome("none", <<>>, ret, NoChild, <<>>, <<>>)
Yielded(ret, child)  == Outcome("none", <<>>, ret, child, <<>>, <<>>)

\* The transport either returns a response with a status or raises.
Response(status)  == [raised |-> FALSE, status |-> status]
TransportFailure  == [raised |-> TRUE, status |-> 0]

\* FabricatorEndpoint._check_method: TRUE when it raises.
check_method_raises(ep, m) ==
    LET mm == IF m.kind = "str" THEN MStr(StrUpper(m.value)) ELSE m
    IN  Len(ep.methods) > 0 /\ ~MethodIn(mm, ep.methods)

\* The required parameter reported is the last one that is missing.
RECURSIVE last_missing(_, _, _)
last_missing(required_params, kwargs, i) ==
    IF i > Len(required_params) THEN 0
    ELSE IF last_missing(required_params, kwargs, i + 1) # 0
    THEN last_missing(required_params, kwargs, i + 1)
    ELSE IF ~HasKey(kwargs, required_params[i]) THEN i
    ELSE 0

\* first required parameter, in declaration order, that kwargs lacks (0: none)
RECURSIVE first_missing(_, _, _)
first_missing(required_params, kwargs, i) ==
    IF i > Len(required_params) THEN 0
    ELSE IF ~HasKey(kwargs, required_params[i]) THEN i
    ELSE first_missing(required_params, kwargs, i + 1)

\* url_params[m] = v: a dict keeps the position of a key it already has
ListSet(l, k, v) ==
    IF \E j \in DOMAIN l : l[j][1] = k
    THEN [j \in DOMAIN l |-> IF l[j][1] = k THEN <<k, v>> ELSE l[j]]
    ELSE Append(l, <<k, v>>)

\* The loop over the tokens of the path: each token's name (the token
\* without its colon) is looked up in what is left of kwargs, moved to
\* url_params and deleted from kwargs.
RECURSIVE bind_path(_, _, _, _)
bind_path(matches, i, kwargs, url_params) ==
    IF i > Len(matches)
    THEN [exc |-> "none", param |-> <<>>, kwargs |-> kwargs,
          url_params |-> url_params]
    ELSE IF ~HasKey(kwargs, Tail(matches[i]))
    THEN [exc |-> "FabricatorParamValidationError", param |-> matches[i],
          kwargs |-> kwargs, url_params |-> url_params]
    ELSE bind_path(matches, i + 1, DelKey(kwargs, Tail(matches[i])),
                   ListSet(url_params, matches[i],
                           GetKey(kwargs, Tail(matches[i]))))

\* Leftover arguments always sent as query parameters.
payload_as_query(method, kwargs) ==
    IF kwargs = {} THEN [kind |-> "none", args |-> {}]
    ELSE [kind |-> "params", args |-> kwargs]

\* the json / params option
payload(method, kwargs) ==
    IF kwargs = {} THEN [kind |-> "none", args |-> {}]
    ELSE IF MethodIn(MStr(method), <<MEnum(M_POST), MEnum(M_PUT), MEnum(M_PATCH)>>)
         THEN [kind |-> "json", args |-> kwargs]
    ELSE [kind |-> "params", args |-> kwargs]

\* handler(resp): noop_response_handler is lambda r: r; what a handler of
\* the caller returns is known only as its application to the response.
apply_handler(h, resp) ==
    IF h = "noop_response_handler" THEN resp
    ELSE [by |-> h, of |-> resp]

\* A pipeline that hands the request to the transport before it checks the
\* parameters.
make_request_sends_first(ns, ep, method, kwargs, resp) ==
    IF check_method_raises(ep, method)
    THEN Raised("FabricatorNotImplementedError")
    ELSE
    LET verb  == IF method.kind = "enum" THEN method.value
                 ELSE StrUpper(method.value)
        miss  == first_missing(ep.required_params, kwargs, 1)
        bound == bind_path(FindTokens(ep.path), 1, kwargs, <<>>)
        req   == [method  |-> verb,
                  url     |-> construct_url(ns, ep, bound.url_params),
                  headers |-> get_headers(ns, ep),
                  auth    |-> get_auth_handler(ns, ep),
                  payload |-> payload(verb, bound.kwargs)]
    IN  IF miss # 0
        THEN Outcome("FabricatorParamValidationError",
                     ep.required_params[miss], "nothing", NoChild, <<req>>,
                     <<>>)
        ELSE IF bound.exc # "none"
        THEN Outcome(bound.exc, bound.param, "nothing", NoChild, <<req>>, <<>>)
        ELSE IF resp.raised
        THEN Outcome("TransportError", <<>>, "nothing", NoChild, <<req>>, <<>>)
        ELSE Outcome("none", <<>>, "response", NoChild, <<req>>,
                     <<[handler |-> get_response_handler(ns, ep),
                        resp |-> resp,
                        result |-> apply_handler(get_response_handler(ns, ep),
                                                 resp)]>>)

\* A pipeline that binds the path parameters before it looks for the
\* required ones.
make_request_binds_first(ns, ep, method, kwargs, resp) ==
    IF check_method_raises(ep, method)
    THEN Raised("FabricatorNotImplementedError")
    ELSE
    LET verb  == IF method.kind = "enum" THEN method.value
                 ELSE StrUpper(method.value)
        miss  == first_missing(ep.required_params, kwargs, 1)
        bound == bind_path(FindTokens(ep.path), 1, kwargs, <<>>)
        req   == [method  |-> verb,
                  url     |-> construct_url(ns, ep, bound.url_params),
                  headers |-> get_headers(ns, ep),
                  auth    |-> get_auth_handler(ns, ep),
                  payload |-> payload(verb, bound.kwargs)]
    IN  IF bound.exc # "none"
        THEN RaisedParam(bound.exc, bound.param)
        ELSE IF miss # 0
        THEN RaisedParam("FabricatorParamValidationError",
                         ep.required_params[miss])
        ELSE IF resp.raised
        THEN Outcome("TransportError", <<>>, "nothing", NoChild, <<req>>, <<>>)
        ELSE Outcome("none", <<>>, "response", NoChild, <<req>>,
                     <<[handler |-> get_response_handler(ns, ep),
                        resp |-> resp,
                        result |-> apply_handler(get_response_handler(ns, ep),
                                                 resp)]>>)

\* FabricatorEndpoint._make_request(method, **kwargs); resp is what the
\* transport does if it is called.
make_request(ns, ep, method, kwargs, resp) ==
    IF check_method_raises(ep, method)
    THEN Raised("FabricatorNotImplementedError")
    ELSE
    LET verb  == IF method.kind = "enum" THEN method.value
                 ELSE StrUpper(method.value)
        miss  == first_missing(ep.required_params, kwargs, 1)
        bound == bind_path(FindTokens(ep.path), 1, kwargs, <<>>)
        req   == [method  |-> verb,
                  url     |-> construct_url(ns, ep, bound.url_params),
                  headers |-> get_headers(ns, ep),
                  auth    |-> get_auth_handler(ns, ep),
                  payload |-> payload(verb, bound.kwargs)]
    IN  IF miss # 0
        THEN RaisedParam("FabricatorParamValidationError",
                         ep.required_params[miss])
        ELSE IF bound.exc # "none"
        THEN RaisedParam(bound.exc, bound.param)
        ELSE IF resp.raised
        THEN Outcome("TransportError", <<>>, "nothing", NoChild, <<req>>, <<>>)
        ELSE Outcome("none", <<>>, "response", NoChild, <<req>>,
                     <<[handler |-> get_response_handler(ns, ep),
                        resp |-> resp,
                        result |-> apply_handler(get_response_handler(ns, ep),
                                                 resp)]>>)

\* FabricatorEndpoint.__call__: the first declared method
endpoint_call(ns, ep, kwargs, resp) ==
    IF Len(ep.methods) = 0 THEN Raised("IndexError")
    ELSE make_request(ns, ep, ep.methods[1], kwargs, resp)

\* FabricatorEndpoint.__getattr__(item) followed by a call of the partial
endpoint_method_call(ns, ep, item, kwargs, resp) ==
    IF check_method_raises(ep, MStr(item))
    THEN Raised("FabricatorNotImplementedError")
    ELSE make_request(ns, ep, MStr(item), kwargs, resp)

\* Calling a child: an endpoint dispatches; a Fabricator has no __call__.
call_child(ns, child, kwargs, resp) ==
    IF child.kind = "endpoint" THEN endpoint_call(ns, child, kwargs, resp)
    ELSE Raised("TypeError")

\* ----------------------------------------------------- Fabricator, lookups
\* A lookup that consults the root's children map instead of the node's own.
getattr_started_at_root(ns, n, name) ==
    IF name \notin DOMAIN ns[find_root(ns, n)].endpoints
    THEN Raised("FabricatorNotImplementedError")
    ELSE Yielded("child", ns[find_root(ns, n)].endpoints[name])

\* Fabricator.__getattr_started(name): the node's own children map only.
getattr_started(ns, n, name) ==
    IF name \notin DOMAIN ns[n].endpoints
    THEN Raised("FabricatorNotImplementedError")
    ELSE Yielded("child", ns[n].endpoints[name])

\* what __getattr_builder returns: register with methods bound
Partial(n, methods) ==
    [NoChild EXCEPT !.kind = "partial", !.parent = n, !.methods = methods]

\* A builder lookup that binds the name as it was spelled.
getattr_builder_as_spelled(ns, n, name) ==
    IF StrUpper(name) \notin HTTPMethods_all
    THEN Raised("FabricatorUsageError")
    ELSE Yielded("partial", Partial(n, <<MStr(name)>>))

\* Fabricator.__getattr_builder(name)
getattr_builder(ns, n, name) ==
    IF StrUpper(name) \notin HTTPMethods_all
    THEN Raised("FabricatorUsageError")
    ELSE Yielded("partial",
                 Partial(n, <<HTTPMethods_lookup(MStr(StrUpper(name))).member>>))

\* A lookup that consults the children map before the mode.
getattr_children_first(ns, n, name) ==
    IF name \in DOMAIN ns[n].endpoints THEN getattr_started(ns, n, name)
    ELSE IF is_started(ns, n) THEN getattr_started(ns, n, name)
    ELSE getattr_builder(ns, n, name)

\* Fabricator.__getattr__(name)
getattr(ns, n, name) ==
    IF is_started(ns, n) THEN getattr_started(ns, n, name)
    ELSE getattr_builder(ns, n, name)

\* self.__getattr_started(opname)(**kwargs): what a builder operation does
\* on a started tree
forward(ns, n, opname, kwargs, resp) ==
    IF getattr_started(ns, n, opname).exc # "none"
    THEN getattr_started(ns, n, opname)
    ELSE call_child(ns, getattr_started(ns, n, opname).child, kwargs, resp)

\* --------------------------------------------- Fabricator, builder calls
\* The result of an operation on the tree: the tree after it and what the
\* call did.
Result(ns, out) == [ns |-> ns, out |-> out]

\* keyword arguments of a builder call, as an endpoint receives them
OptKw(k, given) == IF given THEN {<<k, ObjVal>>} ELSE {}

options_kwargs(kw) ==
    OptKw(K_handler, kw.handler # None)
      \cup OptKw(K_auth_handler, kw.auth_handler # None)
      \cup OptKw(K_headers, ~kw.headers.none)

register_kwargs(kw) ==
    {<<K_name, StrVal(kw.name)>>, <<K_path, StrVal(kw.path)>>,
     <<K_methods, ObjVal>>}
      \cup options_kwargs(kw)
      \cup OptKw(K_required_params, kw.required_params # <<>>)

\* The path the endpoint is constructed with. register() prefixes a local
\* variable with "/" when the path lacks it, and then builds the endpoint
\* from **kwargs, whose 'path' entry is the path as given.
registered_path(path) ==
    LET local == IF ~StartsWith(path, <<"/">>) THEN <<"/">> \o path ELSE path
    IN  path

\* A register() without the started guard.
register_unguarded(ns, n, kw, resp) ==
    IF check_valid_methods(kw.methods).exc # "none"
    THEN Result(ns, Raised(check_valid_methods(kw.methods).exc))
    ELSE Result(
           [ns EXCEPT ![n].endpoints =
               (kw.name :> FabricatorEndpoint(
                               n, kw.name, registered_path(kw.path),
                               kw.handler,
                               check_valid_methods(kw.methods).methods,
                               kw.auth_handler, kw.headers,
                               kw.required_params)) @@ @],
           Returned("self"))

\* A register() that keeps the child a name already has.
register_keeps_first(ns, n, kw, resp) ==
    IF is_started(ns, n)
    THEN Result(ns, forward(ns, n, N_register, register_kwargs(kw), resp))
    ELSE IF check_valid_methods(kw.methods).exc # "none"
    THEN Result(ns, Raised(check_valid_methods(kw.methods).exc))
    ELSE Result(
           [ns EXCEPT ![n].endpoints =
               @ @@ (kw.name :> FabricatorEndpoint(
                                    n, kw.name, registered_path(kw.path),
                                    kw.handler,
                                    check_valid_methods(kw.methods).methods,
                                    kw.auth_handler, kw.headers,
                                    kw.required_params))],
           Returned("self"))

\* Fabricator.register(**kwargs)
register(ns, n, kw, resp) ==
    IF is_started(ns, n)
    THEN Result(ns, forward(ns, n, N_register, register_kwargs(kw), resp))
    ELSE IF check_valid_methods(kw.methods).exc # "none"
    THEN Result(ns, Raised(check_valid_methods(kw.methods).exc))
    ELSE Result(
           [ns EXCEPT ![n].endpoints =
               (kw.name :> FabricatorEndpoint(
                               n, kw.name, registered_path(kw.path),
                               kw.handler,
                               check_valid_methods(kw.methods).methods,
                               kw.auth_handler, kw.headers,
                               kw.required_params)) @@ @],
           Returned("self"))

group_kwargs(gk) ==
    {<<K_name, StrVal(gk.name)>>, <<K_prefix, StrVal(gk.prefix)>>}
      \cup options_kwargs(gk)

\* A group() that checks only the node's own flag.
group_own_flag(ns, n, gk, resp) ==
    IF ns[n].started
    THEN Result(ns, forward(ns, n, N_group, group_kwargs(gk), resp))
    ELSE Result(
           Append([ns EXCEPT ![n].endpoints =
                      (gk.name :> GroupChild(n, gk.name, Len(ns) + 1)) @@ @],
                  Fabricator(gk.prefix, gk.auth_handler, gk.headers,
                             gk.handler, n)),
           Yielded("node", GroupChild(n, gk.name, Len(ns) + 1)))

\* Fabricator.group(**kwargs)
group(ns, n, gk, resp) ==
    IF is_started(ns, n)
    THEN Result(ns, forward(ns, n, N_group, group_kwargs(gk), resp))
    ELSE Result(
           Append([ns EXCEPT ![n].endpoints =
                      (gk.name :> GroupChild(n, gk.name, Len(ns) + 1)) @@ @],
                  Fabricator(gk.prefix, gk.auth_handler, gk.headers,
                             gk.handler, n)),
           Yielded("node", GroupChild(n, gk.name, Len(ns) + 1)))

\* A start() that marks the node it is called on instead of the root.
start_marks_self(ns, n, resp) ==
    IF is_started(ns, n)
    THEN Result(ns, forward(ns, n, N_start, {}, resp))
    ELSE Result([ns EXCEPT ![n].started = TRUE], Returned("None"))

\* Fabricator.start()
start(ns, n, resp) ==
    IF is_started(ns, n)
    THEN Result(ns, forward(ns, n, N_start, {}, resp))
    ELSE Result([ns EXCEPT ![find_root(ns, n)].started = TRUE],
                Returned("None"))

\* An add_header() that replaces the node's map by the new header.
add_header_replacing(ns, n, k, v, resp) ==
    IF is_started(ns, n)
    THEN Result(ns, forward(ns, n, N_add_header,
                            {<<K_name, StrVal(k)>>, <<K_value, StrVal(v)>>},
                            resp))
    ELSE Result([ns EXCEPT ![n].headers = SomeDict({<<k, v>>})],
                Returned("self"))

\* Fabricator.add_header(name=k, value=v)
add_header(ns, n, k, v, resp) ==
    IF is_started(ns, n)
    THEN Result(ns, forward(ns, n, N_add_header,
                            {<<K_name, StrVal(k)>>, <<K_value, StrVal(v)>>},
                            resp))
    ELSE IF ns[n].headers.none
    THEN Result([ns EXCEPT ![n].headers = SomeDict({<<k, v>>})],
                Returned("self"))
    ELSE Result([ns EXCEPT ![n].headers =
                    SomeDict(DictUpdate(@.map, {<<k, v>>}))],
                Returned("self"))

\* Fabricator.set_handler(h): the positional argument is not forwarded
set_handler(ns, n, h, resp) ==
    IF is_started(ns, n)
    THEN Result(ns, forward(ns, n, N_set_handler, {}, resp))
    ELSE Result([ns EXCEPT ![n].default_handler = h], Returned("None"))

\* Fabricator.set_auth_handler(h)
set_auth_handler(ns, n, h, resp) ==
    IF is_started(ns, n)
    THEN Result(ns, forward(ns, n, N_set_auth_handler, {}, resp))
    ELSE Result([ns EXCEPT ![n].auth_handler = h], Returned("None"))

\* the keyword arguments of one register() call
RegKw(name, path, methods, handler, auth_handler, headers, required_params) ==
    [name |-> name, path |-> path, methods |-> methods, handler |-> handler,
     auth_handler |-> auth_handler, headers |-> headers,
     required_params |-> required_params]

\* a register() call of standard(): extra carries the shared options
std_kw(name, path, method, extra) ==
    RegKw(name, path, <<MStr(method)>>, extra.handler, extra.auth_handler,
          extra.headers, extra.required_params)

NoExtra ==
    [handler |-> None, auth_handler |-> None, headers |-> NoneDict,
     required_params |-> <<>>]

\* run register() on the tree of r unless r already raised
and_then(r, n, kw, resp) ==
    IF r.out.exc # "none" THEN r ELSE register(r.ns, n, kw, resp)

\* A standard() that registers the parameterized routes also when no
\* parameter name is given.
standard_unconditional(ns, n, with_param, extra, resp) ==
    IF is_started(ns, n)
    THEN Result(ns, forward(ns, n, N_standard, {}, resp))
    ELSE
    LET path == <<"/", ":">> \o with_param
        r1 == register(ns, n, std_kw(N_all, <<"/">>, M_GET, extra), resp)
        r2 == and_then(r1, n, std_kw(N_create, <<"/">>, M_POST, extra), resp)
        r3 == and_then(r2, n, std_kw(N_get, path, M_GET, NoExtra), resp)
        r4 == and_then(r3, n, std_kw(N_overwrite, path, M_PUT, NoExtra), resp)
        r5 == and_then(r4, n, std_kw(N_update, path, M_PATCH, NoExtra), resp)
        r6 == and_then(r5, n, std_kw(N_delete, path, M_DELETE, NoExtra), resp)
    IN  Result(r6.ns, IF r6.out.exc # "none" THEN r6.out
                      ELSE Returned("None"))

\* Fabricator.standard(with_param, **kwargs); with_param <<>> is None
standard(ns, n, with_param, extra, resp) ==
    IF is_started(ns, n)
    THEN Result(ns, forward(ns, n, N_standard,
                            options_kwargs(extra)
                              \cup OptKw(K_required_params,
                                         extra.required_params # <<>>)
                              \cup (IF with_param # <<>>
                                    THEN {<<K_with_param, StrVal(with_param)>>}
                                    ELSE {}),
                            resp))
    ELSE
    LET path == <<"/", ":">> \o with_param
        r1 == register(ns, n, std_kw(N_all, <<"/">>, M_GET, extra), resp)
        r2 == and_then(r1, n, std_kw(N_create, <<"/">>, M_POST, extra), resp)
        r3 == and_then(r2, n, std_kw(N_get, path, M_GET, NoExtra), resp)
        r4 == and_then(r3, n, std_kw(N_overwrite, path, M_PUT, NoExtra), resp)
        r5 == and_then(r4, n, std_kw(N_update, path, M_PATCH, NoExtra), resp)
        r6 == and_then(r5, n, std_kw(N_delete, path, M_DELETE, NoExtra), resp)
    IN  IF r2.out.exc # "none" \/ with_param = <<>>
        THEN Result(r2.ns, IF r2.out.exc # "none" THEN r2.out
                           ELSE Returned("None"))
        ELSE Result(r6.ns, IF r6.out.exc # "none" THEN r6.out
                           ELSE Returned("None"))

\* -------------------------------------------------------------------- state
VARIABLES
    nodes,   \* the Fabricator instances; nodes[1] is the root client
    calls,   \* calls the client still makes (the starting start() is free)
    last,    \* the latest call: what was called, with what, and what it did
    threads  \* the dispatches in flight on concurrent threads, each with
             \* the locals of its _make_request frame

vars == <<nodes, calls, last, threads>>

\* op: the call; node: the Fabricator it was made on; name: the child's
\* name it gave or looked up; item: the method name it looked up; methods:
\* the methods list it passed; kwargs: its keyword arguments as an endpoint
\* would receive them; out: what the call did.
Last(op, n, name, item, methods, kwargs, out) ==
    [op |-> op, node |-> n, name |-> name, item |-> item, methods |-> methods,
     kwargs |-> kwargs, out |-> out]

NodeIds == DOMAIN nodes

\* Fabricator(base_url=...)
InitRoot == Fabricator(<<"h">>, None, NoneDict, None, 0)

Init ==
    /\ nodes = <<InitRoot>>
    /\ calls = MaxCalls
    /\ last = Last("construct", 1, <<>>, <<>>, <<>>, {}, Returned("self"))
    /\ threads = <<>>

\* one step of the client: the tree and the record of the call
Step(r, counted, op, n, name, item, methods, kwargs) ==
    /\ counted => calls > 0
    /\ nodes' = r.ns
    /\ calls' = IF counted THEN calls - 1 ELSE calls
    /\ last' = Last(op, n, name, item, methods, kwargs, r.out)
    /\ threads' = threads

\* client.register(**kw)
Register(n, kw, resp) ==
    /\ Step(register(nodes, n, kw, resp), TRUE, "register", n, kw.name, <<>>,
            kw.methods, register_kwargs(kw))

\* client.group(**gk)
Group(n, gk, resp) ==
    /\ is_started(nodes, n) \/ Len(nodes) < MaxNodes
    /\ Step(group(nodes, n, gk, resp), TRUE, "group", n, gk.name, <<>>,
            <<>>, group_kwargs(gk))

\* client.start()
Start(n, resp) ==
    Step(start(nodes, n, resp), is_started(nodes, n), "start", n, <<>>, <<>>,
         <<>>, {})

\* client.add_header(name=k, value=v)
AddHeader(n, k, v, resp) ==
    /\ Step(add_header(nodes, n, k, v, resp), TRUE, "add_header", n, k, v,
            <<>>, {})

\* client.set_handler(h)
SetHandler(n, h, resp) ==
    /\ Step(set_handler(nodes, n, h, resp), TRUE, "set_handler", n, <<>>,
            <<>>, <<>>, {})

\* client.set_auth_handler(h)
SetAuthHandler(n, h, resp) ==
    /\ Step(set_auth_handler(nodes, n, h, resp), TRUE, "set_auth_handler", n,
            <<>>, <<>>, <<>>, {})

\* client.standard(with_param=p, **extra)
Standard(n, p, extra, resp) ==
    /\ Step(standard(nodes, n, p, extra, resp), TRUE, "standard", n, p, <<>>,
            <<>>,
            options_kwargs(extra)
              \cup OptKw(K_required_params, extra.required_params # <<>>))

\* client.<item>(**kw) with the keyword arguments of a registration: on an
\* unstarted node the shortcut for register(methods=[item]); on a started
\* node a call of the child named item.
shortcut(ns, n, item, kw, resp) ==
    IF getattr(ns, n, item).exc # "none" THEN Result(ns, getattr(ns, n, item))
    ELSE IF getattr(ns, n, item).ret = "partial"
    THEN register(ns, n,
                  [kw EXCEPT !.methods = getattr(ns, n, item).child.methods],
                  resp)
    ELSE Result(ns, call_child(ns, getattr(ns, n, item).child,
                               register_kwargs(kw) \ {<<K_methods, ObjVal>>},
                               resp))

Shortcut(n, item, kw, resp) ==
    /\ item \notin BuilderNames
    /\ Step(shortcut(nodes, n, item, kw, resp), TRUE, "shortcut", n, kw.name,
            item, <<>>, register_kwargs(kw) \ {<<K_methods, ObjVal>>})

\* client.<name>: Python consults __getattr__ for the names that are not
\* attributes of the instance; the builder operations are.
GetAttr(n, name) ==
    /\ name \notin BuilderNames
    /\ Step(Result(nodes, getattr(nodes, n, name)), TRUE, "getattr", n, name,
            <<>>, <<>>, {})

\* client.<name>(**kwargs) on a started tree
call(ns, n, name, kwargs, resp) ==
    IF getattr(ns, n, name).exc # "none" THEN getattr(ns, n, name)
    ELSE call_child(ns, getattr(ns, n, name).child, kwargs, resp)

Call(n, name, kwargs, resp) ==
    /\ name \notin BuilderNames
    /\ is_started(nodes, n)
    /\ Step(Result(nodes, call(nodes, n, name, kwargs, resp)), TRUE, "call",
            n, name, <<>>, <<>>, kwargs)

\* client.<name>.<item>(**kwargs) on a started tree, <name> an endpoint
CallMethod(n, name, item, kwargs, resp) ==
    /\ name \notin BuilderNames
    /\ is_started(nodes, n)
    /\ name \in DOMAIN nodes[n].endpoints
    /\ nodes[n].endpoints[name].kind = "endpoint"
    /\ Step(Result(nodes,
                   endpoint_method_call(nodes, nodes[n].endpoints[name],
                                        item, kwargs, resp)),
            TRUE, "call_method", n, name, item, <<>>, kwargs)

\* ------------------------------------------------------ the client's calls
\* What the transport may do with a request.
Responses == {Response(200), Response(404), TransportFailure}

S_Get  == <<"G","e","t">>
S_Post == <<"P","o","s","t">>
S_post == <<"p","o","s","t">>

PlainKw(name) ==
    RegKw(name, <<"/","x">>, <<MStr(M_GET)>>, None, None, NoneDict, <<>>)

GroupKw(name, prefix) ==
    [name |-> name, prefix |-> prefix, handler |-> None,
     auth_handler |-> None, headers |-> NoneDict]

\* Registrations under an ordinary name, a method name and every builder
\* operation's name.
RegisterInputs == {PlainKw(nm) : nm \in {N_x, N_get} \cup BuilderNames}

GroupInputs == {GroupKw(nm, <<"/","g">>) : nm \in {N_y, N_start, N_group}}

\* names the client looks up
LookupNames == {N_x, N_y, N_get, S_Get, N_all}

\* The client builds a tree, starts it, looks names up and calls them; the
\* transport answers every request with a 200.
Next ==
    \/ \E n \in NodeIds, kw \in RegisterInputs : Register(n, kw, Response(200))
    \/ \E n \in NodeIds, gk \in GroupInputs : Group(n, gk, Response(200))
    \/ \E n \in NodeIds : Start(n, Response(200))
    \/ \E n \in NodeIds : AddHeader(n, <<"X">>, <<"1">>, Response(200))
    \/ \E n \in NodeIds : SetHandler(n, "h1", Response(200))
    \/ \E n \in NodeIds : SetAuthHandler(n, "a1", Response(200))
    \/ \E n \in NodeIds, p \in {<<>>, K_id} :
          Standard(n, p, NoExtra, Response(200))
    \/ \E n \in NodeIds, item \in {N_get, S_Post, N_x} :
          Shortcut(n, item, PlainKw(N_x), Response(200))
    \/ \E n \in NodeIds, name \in LookupNames : GetAttr(n, name)
    \/ \E n \in NodeIds, name \in LookupNames : Call(n, name, {}, Response(200))
    \/ \E n \in NodeIds, name \in LookupNames, item \in {N_get, S_post} :
          CallMethod(n, name, item, {}, Response(200))

Spec == Init /\ [][Next]_vars

\* -------------------------------------------------- requests of a client
N_g     == <<"g">>
S_Put   == <<"P","u","t">>
P_x     == <<"x">>
P_slash_x == <<"/","x">>
P_id    == <<":","i","d">>
P_slash_id == <<"/",":","i","d">>

\* Registrations that differ in the leading slash of the path, in the
\* methods, in the required parameters and in the handler.
RequestInputs ==
    {RegKw(N_x, P_slash_x, <<MStr(M_GET)>>, None, None, NoneDict, <<>>),
     RegKw(N_x, P_x, <<MStr(M_GET)>>, None, None, NoneDict, <<>>),
     RegKw(N_x, P_slash_x, <<>>, None, None, NoneDict, <<>>),
     RegKw(N_y, P_slash_id, <<MStr(M_PUT), MStr(M_PATCH)>>, None, None,
           NoneDict, <<K_value>>),
     RegKw(N_y, P_id, <<MEnum(M_POST)>>, "h2", None, NoneDict, <<>>)}

\* keyword arguments of a call of an endpoint
CallKwargs ==
    {{},
     {<<K_value, StrVal(<<"a">>)>>},
     {<<K_id, IntVal(7)>>, <<K_value, StrVal(<<"a">>)>>}}

\* The client registers endpoints on the root or on a group, starts the
\* tree and calls the endpoints with and without their parameters; the
\* transport answers or fails.
NextRequests ==
    \/ \E n \in NodeIds, kw \in RequestInputs : Register(n, kw, Response(200))
    \/ \E n \in NodeIds : Group(n, GroupKw(N_g, <<"/","g">>), Response(200))
    \/ \E n \in NodeIds : SetHandler(n, "h1", Response(200))
    \/ \E n \in NodeIds : Start(n, Response(200))
    \/ \E n \in NodeIds, name \in {N_x, N_y}, kwargs \in CallKwargs,
          resp \in {Response(200), TransportFailure} :
          Call(n, name, kwargs, resp)
    \/ \E n \in NodeIds, name \in {N_x, N_y}, item \in {N_get, S_Put, S_post},
          kwargs \in CallKwargs, resp \in {Response(200), TransportFailure} :
          CallMethod(n, name, item, kwargs, resp)

SpecRequests == Init /\ [][NextRequests]_vars

\* ------------------------------------------------- validation of methods
\* Every member as a member, and its value in upper case, in lower case and
\* capitalized; and a word that is no method.
Spellings ==
    {MEnum(v) : v \in HTTPMethodValues}
      \cup {MStr(v) : v \in HTTPMethodValues}
      \cup {MStr(StrLower(v)) : v \in HTTPMethodValues}
      \cup {MStr(StrCapitalize(v)) : v \in HTTPMethodValues}
      \cup {MStr(<<"F","O","O">>)}

MethodLists == UNION {[1..k -> Spellings] : k \in 1..MaxMethods}

\* One register() call with a methods list from the spellings.
NextValidate ==
    \E methods \in MethodLists :
        /\ calls = MaxCalls
        /\ Register(1, RegKw(N_x, P_slash_x, methods, None, None, NoneDict,
                             <<>>),
                    Response(200))

SpecValidate == Init /\ [][NextValidate]_vars

\* ------------------------------------------------- binding of parameters
K_other   == <<"o","t","h","e","r">>
K_id_type == <<"i","d","_","t","y","p","e">>
N_delete_item == <<"d","e","l","e","t","e">>
P_t_id    == <<"/","t","/",":","i","d">>
P_id_id_type ==
    <<"/",":","i","d","/",":","i","d","_","t","y","p","e">>
P_id_type_id ==
    <<"/",":","i","d","_","t","y","p","e","/",":","i","d">>

\* Endpoints with required parameters, with path parameters (one name a
\* prefix of another, in both orders), and with both; methods that take a
\* body and methods that take a query.
BindInputs ==
    {RegKw(N_x, P_slash_x, <<MStr(M_POST)>>, None, None, NoneDict,
           <<K_value>>),
     RegKw(N_x, P_t_id, <<MStr(M_PUT), MStr(M_GET), MStr(M_DELETE)>>, None,
           None, NoneDict, <<K_value, K_other>>),
     RegKw(N_y, P_id_id_type, <<MStr(M_GET), MStr(M_POST)>>, None, None,
           NoneDict, <<>>),
     RegKw(N_y, P_id_type_id, <<MStr(M_PATCH)>>, None, None, NoneDict,
           <<K_other, K_id>>)}

BindArgs ==
    {<<K_id, IntVal(7)>>, <<K_id_type, StrVal(<<"a">>)>>,
     <<K_value, StrVal(<<"a">>)>>, <<K_other, StrVal(<<"b">>)>>}

\* One client: it registers endpoints, starts and calls them, directly and
\* by method name, with every subset of the arguments.
NextBind ==
    \/ \E kw \in BindInputs : Register(1, kw, Response(200))
    \/ Start(1, Response(200))
    \/ \E name \in {N_x, N_y}, kwargs \in SUBSET BindArgs :
          Call(1, name, kwargs, Response(200))
    \/ \E name \in {N_x, N_y},
          item \in {N_get, S_Put, S_post, N_delete_item},
          kwargs \in SUBSET BindArgs :
          CallMethod(1, name, item, kwargs, Response(200))

SpecBind == Init /\ [][NextBind]_vars

\* ------------------------------------------------- configuration chains
\* Fabricator(base_url=..., auth_handler=..., headers=..., handler=...)
ConfiguredRoot == Fabricator(<<"h">>, "a0", SomeDict({<<<<"R">>, <<"0">>>>}), "h0", 0)

\* The client is constructed without or with its options.
InitChain ==
    /\ nodes \in {<<InitRoot>>, <<ConfiguredRoot>>}
    /\ calls = MaxChainCalls
    /\ last = Last("construct", 1, <<>>, <<>>, <<>>, {}, Returned("self"))
    /\ threads = <<>>

\* A group without options, one with a handler, an auth handler and a
\* header map, and one whose header map is empty.
ChainGroups ==
    {GroupKw(N_g, <<"/","a">>),
     [name |-> N_y, prefix |-> <<"/","b">>, handler |-> "h3",
      auth_handler |-> "a3", headers |-> SomeDict({<<<<"G">>, <<"1">>>>})],
     [name |-> N_y, prefix |-> <<"/","b">>, handler |-> None,
      auth_handler |-> None, headers |-> SomeDict({})]}

\* An endpoint without options, one with its own handler, auth handler and
\* header map, and one with a path parameter.
ChainInputs ==
    {PlainKw(N_x),
     RegKw(N_x, P_slash_x, <<MStr(M_GET)>>, "h2", "a2",
           SomeDict({<<<<"E">>, <<"1">>>>}), <<>>),
     RegKw(N_x, P_slash_id, <<MStr(M_GET)>>, None, None, NoneDict, <<>>)}

\* The client nests groups, registers endpoints on them, sets handlers,
\* starts and calls the endpoints; the transport answers 200 or 404.
NextChain ==
    \/ \E n \in NodeIds, gk \in ChainGroups : Group(n, gk, Response(200))
    \/ \E n \in NodeIds, kw \in ChainInputs : Register(n, kw, Response(200))
    \/ \E n \in NodeIds : SetHandler(n, "h1", Response(200))
    \/ \E n \in NodeIds : SetAuthHandler(n, "a1", Response(200))
    \/ Start(1, Response(200))
    \/ \E n \in NodeIds, resp \in {Response(200), Response(404)} :
          Call(n, N_x, {<<K_id, IntVal(7)>>}, resp)

SpecChain == InitChain /\ [][NextChain]_vars

\* The client adds headers to nodes, registers endpoints with and without
\* a header map of their own, starts and calls them.
NextHeaders ==
    \/ \E n \in NodeIds,
          h \in {<<<<"X">>, <<"1">>>>, <<<<"Y">>, <<"2">>>>, <<<<"X">>, <<"3">>>>} :
          AddHeader(n, h[1], h[2], Response(200))
    \/ \E n \in NodeIds : Group(n, GroupKw(N_g, <<"/","a">>), Response(200))
    \/ \E n \in NodeIds, kw \in ChainInputs : Register(n, kw, Response(200))
    \/ Start(1, Response(200))
    \/ \E n \in NodeIds : Call(n, N_x, {<<K_id, IntVal(7)>>}, Response(200))

SpecHeaders == InitChain /\ [][NextHeaders]_vars

\* ------------------------------------------------------- standard routes
\* options shared by the routes of one standard() call
SharedExtra ==
    [handler |-> "h2", auth_handler |-> "a2",
     headers |-> SomeDict({<<<<"S">>, <<"1">>>>}),
     required_params |-> <<K_value>>]

\* The client calls standard() without and with a parameter name and
\* without and with shared options, on the root or on a group and also
\* where a child named get exists, then starts and calls the routes.
NextStandard ==
    \/ \E n \in NodeIds, p \in {<<>>, K_id, K_value},
          extra \in {NoExtra, SharedExtra} :
          Standard(n, p, extra, Response(200))
    \/ \E n \in NodeIds : Group(n, GroupKw(N_get, <<"/","a">>), Response(200))
    \/ \E n \in NodeIds : Register(n, PlainKw(N_get), Response(200))
    \/ Start(1, Response(200))
    \/ \E n \in NodeIds, name \in {N_all, N_create, N_get, N_delete},
          kwargs \in {{}, {<<K_id, IntVal(7)>>, <<K_value, StrVal(<<"a">>)>>}} :
          Call(n, name, kwargs, Response(200))

SpecStandard == Init /\ [][NextStandard]_vars

\* ------------------------------------------------------------ vocabulary
AllStarted(ns)  == \A n \in DOMAIN ns : is_started(ns, n)
NoneStarted(ns) == \A n \in DOMAIN ns : ~is_started(ns, n)

\* what a node holds besides its started flag and its parent link
Config(ns) ==
    [n \in DOMAIN ns |->
        [endpoints       |-> ns[n].endpoints,
         headers         |-> ns[n].headers,
         auth_handler    |-> ns[n].auth_handler,
         default_handler |-> ns[n].default_handler,
         base_url        |-> ns[n].base_url]]

SameIgnoringCase(a, b) ==
    Len(a) = Len(b) /\ \A i \in 1..Len(a) : UpperChar(a[i]) = UpperChar(b[i])

IsMethodName(name) == \E v \in HTTPMethodValues : SameIgnoringCase(name, v)

CanonicalOf(name) == CHOOSE v \in HTTPMethodValues : SameIgnoringCase(name, v)

BuilderOps ==
    {"register", "group", "start", "standard", "add_header", "set_handler",
     "set_auth_handler"}

\* the name of a builder operation
OpName(op) ==
    CASE op = "register"         -> N_register
      [] op = "group"            -> N_group
      [] op = "start"            -> N_start
      [] op = "standard"         -> N_standard
      [] op = "add_header"       -> N_add_header
      [] op = "set_handler"      -> N_set_handler
      [] op = "set_auth_handler" -> N_set_auth_handler

\* FabricatorParamValidationError is a FabricatorUsageError
UsageErrors == {"FabricatorUsageError", "FabricatorParamValidationError"}

\* errors a call of an endpoint may end in once the endpoint was found
PipelineErrors ==
    {"FabricatorNotImplementedError", "FabricatorParamValidationError",
     "IndexError", "TransportError"}

\* ------------------------------------------------------------------ claims

\* C1: _is_started() is the same for every node of the tree in every state:
\* false everywhere until a start(), true everywhere right after a start()
\* on any node; only start() starts the tree.
C1_StartedIsUniform ==
    /\ NoneStarted(nodes)
    /\ [](AllStarted(nodes) \/ NoneStarted(nodes))
    /\ [](last.op = "start" => AllStarted(nodes))
    /\ [][NoneStarted(nodes) /\ ~NoneStarted(nodes') => last'.op = "start"]_vars

\* start() was called on a group that has a parent and a child or sibling
C1_Witness ==
    /\ Len(nodes) = 3
    /\ last.op = "start"
    /\ last.node # 1
    /\ last.out.exc = "none"
    /\ AllStarted(nodes)

\* C2: once the root is started it stays started, and no call changes any
\* node's children, headers, handlers or base URL (nor adds a node).
C2_StartedIsFrozen ==
    [][nodes[1].started =>
          (nodes'[1].started /\ Config(nodes') = Config(nodes))]_vars

\* register() on a started tree, which went to the endpoint named register
C2_Witness ==
    /\ nodes[1].started
    /\ last.op = "register"
    /\ Len(last.out.reqs) = 1

\* C3: on a started tree a looked-up name yields the child stored under
\* that name in the node's own children map, and NotImplementedError for
\* every other name.
C3_StartedLookup ==
    (last.op = "getattr" /\ is_started(nodes, last.node)) =>
        IF last.name \in DOMAIN nodes[last.node].endpoints
        THEN /\ last.out.exc = "none"
             /\ last.out.child = nodes[last.node].endpoints[last.name]
        ELSE last.out.exc = "FabricatorNotImplementedError"

\* a method name, registered on another node only, is not found
C3_Witness ==
    /\ last.op = "getattr"
    /\ is_started(nodes, last.node)
    /\ IsMethodName(last.name)
    /\ \E m \in NodeIds : m # last.node /\ last.name \in DOMAIN nodes[m].endpoints
    /\ last.out.exc = "FabricatorNotImplementedError"

\* C4: on an unstarted tree a looked-up name that is no HTTP method name in
\* any letter case fails with UsageError, registered or not.
C4_BuilderLookupRejects ==
    /\ (last.op = "getattr" /\ ~is_started(nodes, last.node)
          /\ ~IsMethodName(last.name))
          => last.out.exc = "FabricatorUsageError"
    /\ (last.op = "shortcut" /\ ~is_started(nodes, last.node)
          /\ ~IsMethodName(last.item))
          => last.out.exc = "FabricatorUsageError"

\* the name of a registered child is rejected
C4_Witness ==
    /\ last.op = "getattr"
    /\ ~is_started(nodes, last.node)
    /\ last.name \in DOMAIN nodes[last.node].endpoints
    /\ last.out.exc = "FabricatorUsageError"

C7_BuilderNamesShadowed ==
    [][last'.op \in BuilderOps =>
         IF is_started(nodes, last'.node)
         THEN /\ nodes' = nodes
              /\ IF /\ OpName(last'.op) \in DOMAIN nodes[last'.node].endpoints
                    /\ nodes[last'.node].endpoints[OpName(last'.op)].kind
                          = "endpoint"
                 THEN \/ Len(last'.out.reqs) = 1
                      \/ last'.out.exc \in PipelineErrors
                 ELSE last'.out.exc = "FabricatorNotImplementedError"
         ELSE \/ last'.out.ret \in {"self", "None", "node"}
              \/ last'.op = "register"
                   /\ last'.out.exc = "FabricatorNotImplementedError"]_vars

\* the path with a "/" in front unless it has one
WithLeadingSlash(path) ==
    IF Len(path) > 0 /\ path[1] = "/" THEN path ELSE <<"/">> \o path

\* the endpoint a call of last.name on last.node reaches
Callee == nodes[last.node].endpoints[last.name]

\* the latest call reached an endpoint of the started tree
Dispatched ==
    /\ last.op \in {"call", "call_method"}
    /\ is_started(nodes, last.node)
    /\ last.name \in DOMAIN nodes[last.node].endpoints
    /\ Callee.kind = "endpoint"

\* C8: every registered endpoint's path begins with "/" (a path given
\* without it is stored with it), and the URL requested for a path without
\* parameters is the chain's base URL followed by that path.
C8_LeadingSlash ==
    /\ \A n \in NodeIds : \A nm \in DOMAIN nodes[n].endpoints :
          nodes[n].endpoints[nm].kind = "endpoint"
             => StartsWith(nodes[n].endpoints[nm].path, <<"/">>)
    /\ (last.op = "register" /\ ~is_started(nodes, last.node)
          /\ last.out.exc = "none")
          => nodes[last.node].endpoints[last.name].path
                = WithLeadingSlash(GetKey(last.kwargs, K_path).s)
    /\ (Dispatched /\ Len(last.out.reqs) = 1 /\ FindTokens(Callee.path) = <<>>)
          => last.out.reqs[1].url
                = climb_base_url(nodes, last.node)
                     \o WithLeadingSlash(Callee.path)

\* C9: register() accepts every letter-case spelling of the nine methods,
\* as a str or as a member, and stores the canonical members; it fails with
\* NotImplementedError only for a value that is none of the nine in any
\* letter case.
C9_CaseInsensitiveValidation ==
    [][(last'.op = "register" /\ ~is_started(nodes, last'.node)) =>
         IF \A i \in DOMAIN last'.methods : IsMethodName(last'.methods[i].value)
         THEN /\ last'.out.exc = "none"
              /\ nodes'[last'.node].endpoints[last'.name].methods
                    = [i \in 1..Len(last'.methods) |->
                          MEnum(CanonicalOf(last'.methods[i].value))]
         ELSE /\ last'.out.exc = "FabricatorNotImplementedError"
              /\ nodes' = nodes]_vars

\* the method a dispatch runs with is one the endpoint declares
MethodAccepted ==
    IF last.op = "call" THEN Len(Callee.methods) > 0
    ELSE \/ Len(Callee.methods) = 0
         \/ \E i \in DOMAIN Callee.methods :
               SameIgnoringCase(Callee.methods[i].value, last.item)

RequiredSupplied ==
    \A i \in DOMAIN Callee.required_params :
        HasKey(last.kwargs, Callee.required_params[i])

\* every token of the path has its argument
PathSupplied ==
    \A i \in DOMAIN FindTokens(Callee.path) :
        HasKey(last.kwargs, Tail(FindTokens(Callee.path)[i]))

\* no token occurs twice in the path
TokensDistinct ==
    \A i, j \in DOMAIN FindTokens(Callee.path) :
        FindTokens(Callee.path)[i] = FindTokens(Callee.path)[j] => i = j

\* the errors of the three checks that precede the transport
CheckErrors ==
    {"FabricatorNotImplementedError", "FabricatorParamValidationError",
     "IndexError"}

\* C10: a dispatch that fails the method check, the required-parameter
\* check or the path binding hands nothing to the transport; one that
\* passes them hands it exactly one request, and the response, if the
\* transport returns one, goes to the resolved response handler once.
C10_OneTransportCall ==
    Dispatched =>
        /\ (~MethodAccepted \/ ~RequiredSupplied \/ ~PathSupplied)
              => last.out.exc \in CheckErrors
        /\ (MethodAccepted /\ RequiredSupplied /\ PathSupplied /\ TokensDistinct)
              => last.out.exc \notin CheckErrors
        /\ last.out.exc \in CheckErrors
              => last.out.reqs = <<>> /\ last.out.handled = <<>>
        /\ last.out.exc \notin CheckErrors
              => /\ Len(last.out.reqs) = 1
                 /\ last.out.exc \in {"none", "TransportError"}
                 /\ last.out.exc = "TransportError" => last.out.handled = <<>>
                 /\ last.out.exc = "none"
                       => /\ Len(last.out.handled) = 1
                          /\ ~last.out.handled[1].resp.raised
                          /\ last.out.handled[1].handler
                                = get_response_handler(nodes, Callee)

\* a dispatch with a required and a path parameter reached the transport
\* and its response the handler set on the root
C10_Witness ==
    /\ Dispatched
    /\ Callee.required_params # <<>>
    /\ FindTokens(Callee.path) # <<>>
    /\ Len(last.out.reqs) = 1
    /\ Len(last.out.handled) = 1
    /\ last.out.handled[1].handler = "h1"

\* the first required parameter, in declaration order, the call lacks
FirstMissing ==
    CHOOSE i \in DOMAIN Callee.required_params :
        /\ ~HasKey(last.kwargs, Callee.required_params[i])
        /\ \A j \in 1..(i - 1) : HasKey(last.kwargs, Callee.required_params[j])

\* C11: a dispatch that lacks declared required parameters raises
\* ParamValidationError whose param is the first missing name in declaration
\* order, whatever other arguments are supplied; a dispatch that has them
\* all raises no such error for a required name.
C11_FirstMissingRequired ==
    (Dispatched /\ MethodAccepted) =>
        /\ ~RequiredSupplied
              => /\ last.out.exc = "FabricatorParamValidationError"
                 /\ last.out.param = Callee.required_params[FirstMissing]
                 /\ last.out.reqs = <<>>
        /\ RequiredSupplied
              => ~(/\ last.out.exc = "FabricatorParamValidationError"
                   /\ \E i \in DOMAIN Callee.required_params :
                         last.out.param = Callee.required_params[i])

\* two required parameters are missing and other arguments are supplied
C11_Witness ==
    /\ Dispatched
    /\ MethodAccepted
    /\ Len(Callee.required_params) = 2
    /\ \A i \in DOMAIN Callee.required_params :
          ~HasKey(last.kwargs, Callee.required_params[i])
    /\ last.kwargs # {}
    /\ last.out.exc = "FabricatorParamValidationError"
    /\ last.out.param = Callee.required_params[1]

\* the template with each token occurrence replaced by the string form of
\* the value of its own identifier, everything else kept
RECURSIVE FillFrom(_, _, _)
FillFrom(s, i, kwargs) ==
    IF i > Len(s) THEN <<>>
    ELSE IF s[i] = ":" /\ TokenEnd(s, i + 1) >= i + 1
         THEN StrOf(GetKey(kwargs, SubSeq(s, i + 1, TokenEnd(s, i + 1))))
                  \o FillFrom(s, TokenEnd(s, i + 1) + 1, kwargs)
         ELSE <<s[i]>> \o FillFrom(s, i + 1, kwargs)

\* C12: when the call supplies a value for every token of the template, the
\* path sent is the template with each token occurrence replaced by the
\* string form of its own identifier's value and nothing else altered, also
\* when one identifier is a prefix of another.
C12_TokensReplacedByOwnValue ==
    (Dispatched /\ PathSupplied /\ Len(last.out.reqs) = 1) =>
        last.out.reqs[1].url
            = climb_base_url(nodes, last.node)
                 \o FillFrom(Callee.path, 1, last.kwargs)

\* the names of the path's tokens
TokenNames ==
    {Tail(FindTokens(Callee.path)[i]) : i \in DOMAIN FindTokens(Callee.path)}

\* the method a dispatch runs with, as the transport names it
Verb ==
    IF last.op = "call" THEN Callee.methods[1].value ELSE StrUpper(last.item)

\* C13: the payload handed to the transport is the call's arguments minus
\* the keys consumed as path parameters; it is the body for POST, PUT and
\* PATCH and the query for every other method, and when nothing is left
\* neither is sent.
C13_PayloadIsLeftover ==
    (Dispatched /\ Len(last.out.reqs) = 1) =>
        LET left == {a \in last.kwargs : a[1] \notin TokenNames}
            sent == last.out.reqs[1].payload
        IN  /\ last.out.reqs[1].method = Verb
            /\ sent.args = left
            /\ sent.kind = IF left = {} THEN "none"
                           ELSE IF Verb \in {M_POST, M_PUT, M_PATCH} THEN "json"
                           ELSE "params"

\* a PUT whose path parameter left the arguments and whose required
\* parameters stayed in the body
C13_Witness ==
    /\ Dispatched
    /\ Len(last.out.reqs) = 1
    /\ Verb = M_PUT
    /\ TokenNames # {}
    /\ last.out.reqs[1].payload.kind = "json"
    /\ last.out.reqs[1].payload.args # {}
    /\ last.out.reqs[1].payload.args # last.kwargs
    /\ \A i \in DOMAIN Callee.required_params :
          HasKey(last.out.reqs[1].payload.args, Callee.required_params[i])

\* the node of the callee, its parent, and so on up to the root
RECURSIVE ChainOf(_, _)
ChainOf(ns, n) == IF n = 0 THEN <<>> ELSE <<n>> \o ChainOf(ns, ns[n].parent)

CalleeChain == ChainOf(nodes, last.node)

\* position in the callee's chain of the nearest node that has Field set
\* (0 if none has)
NearestWith(HasField(_)) ==
    IF \E i \in DOMAIN CalleeChain : HasField(CalleeChain[i])
    THEN CHOOSE i \in DOMAIN CalleeChain :
            /\ HasField(CalleeChain[i])
            /\ \A j \in 1..(i - 1) : ~HasField(CalleeChain[j])
    ELSE 0

HasHeaders(n) == ~nodes[n].headers.none
HasHandler(n) == nodes[n].default_handler # None
HasAuthHandler(n) == nodes[n].auth_handler # None

RECURSIVE Fragments(_, _)
Fragments(chain, i) ==
    IF i = 0 THEN <<>> ELSE nodes[chain[i]].base_url \o Fragments(chain, i - 1)

\* C15: the URL requested is the base-URL fragments of the endpoint's
\* ancestors in root-to-leaf order followed by the parameter-substituted
\* path; other groups contribute nothing.
C15_UrlIsChainThenPath ==
    (Dispatched /\ Len(last.out.reqs) = 1) =>
        last.out.reqs[1].url
            = Fragments(CalleeChain, Len(CalleeChain))
                 \o FillFrom(Callee.path, 1, last.kwargs)

\* an endpoint of a nested group, called while another group exists that is
\* none of its ancestors, or two levels deep
C15_Witness ==
    /\ Dispatched
    /\ Len(last.out.reqs) = 1
    /\ Len(nodes) = 3
    /\ Len(CalleeChain) \in {2, 3}
    /\ nodes[2].base_url # nodes[3].base_url
    /\ FindTokens(Callee.path) # <<>>

ItemDeclared ==
    \E i \in DOMAIN Callee.methods :
        SameIgnoringCase(Callee.methods[i].value, last.item)

\* C17: on an endpoint a name yields a dispatcher for that method if and
\* only if it matches one of the declared methods in any letter case, and
\* fails with NotImplementedError otherwise; a direct call dispatches with
\* the first declared method.
C17_DispatcherIffDeclared ==
    Dispatched =>
        /\ (last.op = "call_method" /\ ItemDeclared)
              => /\ last.out.exc # "FabricatorNotImplementedError"
                 /\ Len(last.out.reqs) = 1
                       => last.out.reqs[1].method = StrUpper(last.item)
        /\ (last.op = "call_method" /\ ~ItemDeclared)
              => /\ last.out.exc = "FabricatorNotImplementedError"
                 /\ last.out.reqs = <<>>
        /\ (last.op = "call" /\ Len(Callee.methods) > 0)
              => /\ last.out.exc # "FabricatorNotImplementedError"
                 /\ Len(last.out.reqs) = 1
                       => last.out.reqs[1].method = Callee.methods[1].value

\* the routes of standard(): name, method and path of each
StandardRoutes(P) ==
    {<<N_all, M_GET, <<"/">>>>, <<N_create, M_POST, <<"/">>>>}
      \cup (IF P = <<>> THEN {}
            ELSE {<<N_get, M_GET, <<"/", ":">> \o P>>,
                  <<N_overwrite, M_PUT, <<"/", ":">> \o P>>,
                  <<N_update, M_PATCH, <<"/", ":">> \o P>>,
                  <<N_delete, M_DELETE, <<"/", ":">> \o P>>})

\* C18: on an unstarted node standard() registers exactly all (GET '/') and
\* create (POST '/'), and with a parameter name P also get (GET), overwrite
\* (PUT), update (PATCH) and delete (DELETE) at '/:P'; without P no
\* parameterized route is created.
C18_StandardRoutes ==
    [][(last'.op = "standard" /\ ~is_started(nodes, last'.node)) =>
         LET n      == last'.node
             routes == StandardRoutes(last'.name)
         IN  /\ last'.out.exc = "none"
             /\ Len(nodes') = Len(nodes)
             /\ \A k \in NodeIds \ {n} : nodes'[k] = nodes[k]
             /\ DOMAIN nodes'[n].endpoints
                   = DOMAIN nodes[n].endpoints \cup {r[1] : r \in routes}
             /\ \A r \in routes :
                   /\ nodes'[n].endpoints[r[1]].kind = "endpoint"
                   /\ nodes'[n].endpoints[r[1]].methods = <<MEnum(r[2])>>
                   /\ nodes'[n].endpoints[r[1]].path = r[3]
             /\ \A nm \in DOMAIN nodes[n].endpoints \ {r[1] : r \in routes} :
                   nodes'[n].endpoints[nm] = nodes[n].endpoints[nm]
             /\ ~is_started(nodes', n)]_vars

\* standard() without a parameter name left a node with all and create only
C18_Witness ==
    /\ last.op = "standard"
    /\ last.name = <<>>
    /\ last.out.exc = "none"
    /\ DOMAIN nodes[last.node].endpoints = {N_all, N_create}
    /\ \E n \in NodeIds :
          /\ n # last.node
          /\ N_delete \in DOMAIN nodes[n].endpoints
          /\ nodes[n].endpoints[N_delete].path = <<"/", ":", "i", "d">>

\* C19: the extra options passed to standard() (handler, headers, auth
\* handler, required params) are applied to every route it generates, the
\* parameterized ones as well as all and create.
C19_ExtrasOnEveryRoute ==
    [][(last'.op = "standard" /\ ~is_started(nodes, last'.node)
          /\ last'.out.exc = "none") =>
         LET extra == IF HasKey(last'.kwargs, K_handler) THEN SharedExtra
                      ELSE NoExtra
         IN  \A r \in StandardRoutes(last'.name) :
                /\ r[1] \in DOMAIN nodes'[last'.node].endpoints
                /\ nodes'[last'.node].endpoints[r[1]].handler = extra.handler
                /\ nodes'[last'.node].endpoints[r[1]].auth_handler
                      = extra.auth_handler
                /\ nodes'[last'.node].endpoints[r[1]].headers = extra.headers
                /\ nodes'[last'.node].endpoints[r[1]].required_params
                      = extra.required_params]_vars

\* add_header(name, value) on an unstarted node puts the header into the
\* node's map and keeps the headers of other names
AddHeaderMerges ==
    [][(last'.op = "add_header" /\ ~is_started(nodes, last'.node)) =>
         /\ <<last'.name, last'.item>> \in nodes'[last'.node].headers.map
         /\ \A h \in nodes[last'.node].headers.map :
               h[1] # last'.name => h \in nodes'[last'.node].headers.map]_vars

\* a header of a node stays in its map with its value unless add_header
\* gives its name to the node again
HeadersStay ==
    [][\A n \in NodeIds : \A h \in nodes[n].headers.map :
          \/ h \in nodes'[n].headers.map
          \/ /\ last'.op = "add_header"
             /\ last'.node = n
             /\ last'.name = h[1]]_vars

DeclaredLists ==
    {<<>>,
     <<MStr(M_GET)>>,
     <<MEnum(M_POST), MStr(M_PUT)>>,
     <<MStr(<<"F","O","O">>)>>,
     <<MStr(M_GET), MStr(<<"F","O","O">>)>>}

\* One client registers endpoints with these lists, by standard() and by
\* the method shortcuts, and starts the tree.
NextDeclared ==
    \/ \E nm \in {N_x, N_y}, methods \in DeclaredLists :
          Register(1, RegKw(nm, <<"/","x">>, methods, None, None, NoneDict,
                            <<>>),
                   Response(200))
    \/ \E p \in {<<>>, K_id} : Standard(1, p, NoExtra, Response(200))
    \/ \E item \in {N_get, S_Post, N_x} :
          Shortcut(1, item, PlainKw(N_x), Response(200))
    \/ Start(1, Response(200))

SpecDeclared == Init /\ [][NextDeclared]_vars

\* the nine members of HTTPMethods
CanonicalMethods == {MEnum(v) : v \in HTTPMethodValues}

\* a methods list that is empty or has an entry that is a method in no
\* letter case
Undeclarable(methods) ==
    \/ methods = <<>>
    \/ \E i \in DOMAIN methods : ~IsMethodName(methods[i].value)

\* C21: every endpoint in a children map declares at least one method and
\* every declared entry is one of the nine canonical methods; a register()
\* whose methods list is empty or names no method is rejected and adds no
\* endpoint.
C21_MethodsDeclared ==
    /\ [](\A n \in NodeIds : \A nm \in DOMAIN nodes[n].endpoints :
            nodes[n].endpoints[nm].kind = "endpoint"
               => /\ Len(nodes[n].endpoints[nm].methods) > 0
                  /\ \A i \in DOMAIN nodes[n].endpoints[nm].methods :
                        nodes[n].endpoints[nm].methods[i] \in CanonicalMethods)
    /\ [][(last'.op = "register" /\ ~is_started(nodes, last'.node)
             /\ Undeclarable(last'.methods))
            => /\ last'.out.exc # "none"
               /\ nodes' = nodes]_vars

\* C22: the checks of a dispatch run in the order method, required
\* parameters, path parameters: a call by a method the endpoint does not
\* declare that also lacks parameters fails with NotImplementedError, and
\* a call that lacks both a required and a path parameter fails with
\* ParamValidationError whose param is the first missing required name,
\* not the path token; neither reaches the transport.
C22_CheckOrder ==
    Dispatched =>
        /\ (last.op = "call_method" /\ ~ItemDeclared
              /\ (~RequiredSupplied \/ ~PathSupplied))
              => /\ last.out.exc = "FabricatorNotImplementedError"
                 /\ last.out.reqs = <<>>
        /\ (MethodAccepted /\ ~RequiredSupplied /\ ~PathSupplied)
              => /\ last.out.exc = "FabricatorParamValidationError"
                 /\ last.out.param = Callee.required_params[FirstMissing]
                 /\ \A i \in DOMAIN FindTokens(Callee.path) :
                       last.out.param # FindTokens(Callee.path)[i]
                 /\ last.out.reqs = <<>>

\* a declared method called without a required parameter and without the
\* path parameter: the error names the required parameter
C22_Witness ==
    /\ Dispatched
    /\ last.op = "call_method"
    /\ ItemDeclared
    /\ ~RequiredSupplied
    /\ ~PathSupplied
    /\ last.out.exc = "FabricatorParamValidationError"
    /\ last.out.param = Callee.required_params[FirstMissing]

\* ------------------------------------------------ the tokens of a path
\* Endpoints whose path has one token, two different tokens, the same token
\* twice, and the same token around another one.
TokenInputs ==
    {RegKw(N_x, <<"/","t","/",":","i","d">>, <<MStr(M_GET)>>, None, None,
           NoneDict, <<>>),
     RegKw(N_x, <<"/",":","i","d","/",":","o","t","h","e","r">>,
           <<MStr(M_GET), MStr(M_PUT)>>, None, None, NoneDict, <<>>),
     RegKw(N_y, <<"/",":","i","d","/",":","i","d">>, <<MStr(M_GET)>>, None,
           None, NoneDict, <<>>),
     RegKw(N_y, <<"/",":","i","d","/",":","o","t","h","e","r","/",":","i","d">>,
           <<MStr(M_PUT)>>, None, None, NoneDict, <<>>)}

\* One client registers them, starts and calls them with every subset of
\* the arguments.
NextTokens ==
    \/ \E kw \in TokenInputs : Register(1, kw, Response(200))
    \/ Start(1, Response(200))
    \/ \E name \in {N_x, N_y}, kwargs \in SUBSET BindArgs :
          Call(1, name, kwargs, Response(200))
    \/ \E name \in {N_x, N_y}, item \in {N_get, S_Put},
          kwargs \in SUBSET BindArgs :
          CallMethod(1, name, item, kwargs, Response(200))

SpecTokens == Init /\ [][NextTokens]_vars

\* the first token, in the order of the template, the call has no argument
\* for
FirstUnbound ==
    CHOOSE i \in DOMAIN FindTokens(Callee.path) :
        /\ ~HasKey(last.kwargs, Tail(FindTokens(Callee.path)[i]))
        /\ \A j \in 1..(i - 1) :
              HasKey(last.kwargs, Tail(FindTokens(Callee.path)[j]))

\* C23: a dispatch that passed the method and required-parameter checks
\* raises ParamValidationError exactly when some token of the path has no
\* argument of its name, and the param reported is the first such token of
\* the template; when every identifier is supplied no ParamValidationError
\* is raised, also when the template holds a token more than once.
C23_BindingRaisesIffUnsupplied ==
    (Dispatched /\ MethodAccepted /\ RequiredSupplied) =>
        /\ (last.out.exc = "FabricatorParamValidationError") <=> ~PathSupplied
        /\ ~PathSupplied
              => last.out.param = FindTokens(Callee.path)[FirstUnbound]

\* ------------------------------------------------- concurrent dispatches
\* threads that dispatch at the same time
MaxThreads == 2

\* A client built and started before the threads begin: an endpoint with a
\* path parameter on the configured root, and a group with an endpoint
\* that has a required parameter and a header map of its own.
StartedTree ==
    LET r1 == register(<<ConfiguredRoot>>, 1,
                       RegKw(N_x, <<"/",":","i","d">>,
                             <<MStr(M_GET), MStr(M_PUT)>>, None, None,
                             NoneDict, <<>>),
                       Response(200)).ns
        r2 == group(r1, 1, GroupKw(<<"g">>, <<"/","g">>), Response(200)).ns
        r3 == register(r2, 2,
                       RegKw(N_y, <<"/","y","/",":","i","d">>,
                             <<MStr(M_PUT)>>, "h2", None,
                             SomeDict({<<<<"E">>, <<"1">>>>}), <<K_value>>),
                       Response(200)).ns
    IN  start(r3, 1, Response(200)).ns

\* a thread that has not begun its dispatch
IdleThread ==
    [pc |-> "idle", op |-> "none", node |-> 0, name |-> <<>>, item |-> <<>>,
     given |-> {}, kwargs |-> {}, method |-> <<>>, url_params |-> <<>>,
     payload |-> payload(<<>>, {}), auth |-> None, headers |-> {},
     url |-> <<>>, resp |-> Response(0), out |-> Returned("pending")]

InitConcurrent ==
    /\ nodes = StartedTree
    /\ calls = 0
    /\ last = Last("start", 1, <<>>, <<>>, <<>>, {}, Returned("None"))
    /\ threads = [t \in 1..MaxThreads |-> IdleThread]

\* the endpoint a thread's dispatch runs on: self in _make_request
Self(t) == nodes[threads[t].node].endpoints[threads[t].name]

\* the request a thread has put together
Request(th) ==
    [method |-> th.method, url |-> th.url, headers |-> th.headers,
     auth |-> th.auth, payload |-> th.payload]

\* one step of thread t, which leaves the tree and the client alone
ThreadStep(t, th) ==
    /\ nodes' = nodes
    /\ calls' = calls
    /\ last' = last
    /\ threads' = [threads EXCEPT ![t] = th]

\* a thread's step that ends its dispatch with an exception
ThreadRaises(t, out) ==
    ThreadStep(t, [threads[t] EXCEPT !.pc = "done", !.out = out])

\* A thread looks the child up on a node of the started tree and calls it
\* (op "call") or a method name on it (op "call_method") with its own
\* keyword arguments.
Dispatch(t, n, name, op, item, kwargs) ==
    /\ threads[t].pc = "idle"
    /\ is_started(nodes, n)
    /\ getattr(nodes, n, name).exc = "none"
    /\ getattr(nodes, n, name).child.kind = "endpoint"
    /\ ThreadStep(t, [IdleThread EXCEPT !.pc = "check", !.op = op, !.node = n,
                                        !.name = name, !.item = item,
                                        !.given = kwargs, !.kwargs = kwargs])

\* __call__ takes methods[0], __getattr__ the name; _check_method
CheckMethod(t) ==
    /\ threads[t].pc = "check"
    /\ IF threads[t].op = "call" /\ Len(Self(t).methods) = 0
       THEN ThreadRaises(t, Raised("IndexError"))
       ELSE LET m == IF threads[t].op = "call" THEN Self(t).methods[1]
                     ELSE MStr(threads[t].item)
            IN  IF check_method_raises(Self(t), m)
                THEN ThreadRaises(t, Raised("FabricatorNotImplementedError"))
                ELSE ThreadStep(t, [threads[t] EXCEPT
                                      !.pc = "required",
                                      !.method = IF m.kind = "enum"
                                                 THEN m.value
                                                 ELSE StrUpper(m.value)])

\* the loop over self.required_params
CheckRequired(t) ==
    /\ threads[t].pc = "required"
    /\ LET miss == first_missing(Self(t).required_params, threads[t].kwargs, 1)
       IN  IF miss # 0
           THEN ThreadRaises(t, RaisedParam("FabricatorParamValidationError",
                                            Self(t).required_params[miss]))
           ELSE ThreadStep(t, [threads[t] EXCEPT !.pc = "bind"])

\* the loop over the tokens of self.path, and the options of the request
BindPath(t) ==
    /\ threads[t].pc = "bind"
    /\ LET bound == bind_path(FindTokens(Self(t).path), 1, threads[t].kwargs,
                              <<>>)
       IN  IF bound.exc # "none"
           THEN ThreadRaises(t, RaisedParam(bound.exc, bound.param))
           ELSE ThreadStep(t, [threads[t] EXCEPT
                                 !.pc = "auth",
                                 !.kwargs = bound.kwargs,
                                 !.url_params = bound.url_params,
                                 !.payload = payload(threads[t].method,
                                                     bound.kwargs)])

\* options['auth'] = self._get_auth_handler()()
GetAuth(t) ==
    /\ threads[t].pc = "auth"
    /\ ThreadStep(t, [threads[t] EXCEPT
                        !.pc = "headers",
                        !.auth = get_auth_handler(nodes, Self(t))])

\* options['headers'] = self._get_headers()
GetHeaders(t) ==
    /\ threads[t].pc = "headers"
    /\ ThreadStep(t, [threads[t] EXCEPT
                        !.pc = "url",
                        !.headers = get_headers(nodes, Self(t))])

\* A _construct_url that keeps the substituted path on the endpoint.
ConstructUrlStoringPath(t) ==
    /\ threads[t].pc = "url"
    /\ nodes' = [nodes EXCEPT
                   ![threads[t].node].endpoints[threads[t].name].path =
                       substitute(@, threads[t].url_params, 1)]
    /\ calls' = calls
    /\ last' = last
    /\ threads' = [threads EXCEPT
                     ![t].pc = "send",
                     ![t].url = construct_url(nodes, Self(t),
                                              threads[t].url_params)]

\* self._construct_url(url_params=url_params)
ConstructUrl(t) ==
    /\ threads[t].pc = "url"
    /\ ThreadStep(t, [threads[t] EXCEPT
                        !.pc = "send",
                        !.url = construct_url(nodes, Self(t),
                                              threads[t].url_params)])

\* requests.request(method, url, **options): the transport answers or
\* raises
Send(t, resp) ==
    /\ threads[t].pc = "send"
    /\ IF resp.raised
       THEN ThreadStep(t, [threads[t] EXCEPT
                             !.pc = "done",
                             !.resp = resp,
                             !.out = Outcome("TransportError", <<>>, "nothing",
                                             NoChild, <<Request(threads[t])>>,
                                             <<>>)])
       ELSE ThreadStep(t, [threads[t] EXCEPT !.pc = "handle", !.resp = resp])

\* return self._get_response_handler()(resp)
Handle(t) ==
    /\ threads[t].pc = "handle"
    /\ LET h == get_response_handler(nodes, Self(t))
       IN  ThreadStep(t, [threads[t] EXCEPT
                            !.pc = "done",
                            !.out = Outcome("none", <<>>, "response", NoChild,
                                            <<Request(threads[t])>>,
                                            <<[handler |-> h,
                                               resp |-> threads[t].resp,
                                               result |-> apply_handler(
                                                   h, threads[t].resp)]>>)])

\* Every thread dispatches once, on either endpoint, directly or by a
\* method name, with arguments of its own; the steps of the threads
\* interleave freely.
NextConcurrent ==
    \E t \in 1..MaxThreads :
        \/ \E n \in NodeIds, name \in {N_x, N_y},
              kwargs \in {{<<K_id, IntVal(7)>>},
                          {<<K_id, IntVal(8)>>, <<K_value, StrVal(<<"a">>)>>}} :
              \/ Dispatch(t, n, name, "call", <<>>, kwargs)
              \/ Dispatch(t, n, name, "call_method", <<"P","u","t">>, kwargs)
        \/ CheckMethod(t)
        \/ CheckRequired(t)
        \/ BindPath(t)
        \/ GetAuth(t)
        \/ GetHeaders(t)
        \/ ConstructUrl(t)
        \/ \E resp \in {Response(200), TransportFailure} : Send(t, resp)
        \/ Handle(t)

SpecConcurrent == InitConcurrent /\ [][NextConcurrent]_vars

\* what a thread's dispatch does when it runs alone on the started tree
Alone(th, resp) ==
    IF th.op = "call"
    THEN endpoint_call(StartedTree, StartedTree[th.node].endpoints[th.name],
                       th.given, resp)
    ELSE endpoint_method_call(StartedTree,
                              StartedTree[th.node].endpoints[th.name],
                              th.item, th.given, resp)

\* C24: on a started tree, however the steps of concurrent dispatches on
\* the same or on different endpoints interleave, every node and endpoint
\* keeps its state (children, headers, handlers, path, methods, required
\* parameters, started flag), and the request each dispatch hands to the
\* transport (method, URL, headers, auth, payload) and what it returns or
\* raises are those of the same dispatch run alone.
C24_ConcurrentDispatch ==
    /\ nodes = StartedTree
    /\ \A t \in DOMAIN threads :
          /\ threads[t].pc \in {"send", "handle"}
                => Alone(threads[t], Response(200)).reqs
                      = <<Request(threads[t])>>
          /\ threads[t].pc = "done"
                => threads[t].out = Alone(threads[t], threads[t].resp)

\* two dispatches on the same endpoint with different arguments are both
\* between the construction of the URL and the transport's answer
C24_Witness ==
    /\ DOMAIN threads = 1..MaxThreads
    /\ \E t, u \in DOMAIN threads :
          /\ t # u
          /\ threads[t].pc = "send"
          /\ threads[u].pc = "handle"
          /\ threads[t].node = threads[u].node
          /\ threads[t].name = threads[u].name
          /\ threads[t].url # threads[u].url
          /\ FindTokens(Self(t).path) # <<>>

\* ------------------------------------------------ extras.handler_check_ok
\* FabricatorRequestError(message, code, content)
FabricatorRequestError(message, code, content) ==
    [exc |-> "FabricatorRequestError", message |-> message, code |-> code,
     content |-> content, ret |-> None]

\* FabricatorRequestAuthError(code, content): the parent's constructor
\* without a message, then the fixed message
FabricatorRequestAuthError(code, content) ==
    [FabricatorRequestError(None, code, content) EXCEPT
        !.exc = "FabricatorRequestAuthError",
        !.message = "Authentication failed"]

\* A check that takes only 401 for an authentication failure.
handler_check_ok_401_only(resp) ==
    IF ~resp.ok
    THEN IF resp.status_code = 401
         THEN FabricatorRequestAuthError(resp.status_code, resp.content)
         ELSE FabricatorRequestError(
                  <<"HTTPError during request to ", resp.url>>,
                  resp.status_code, resp.content)
    ELSE [exc |-> "none", message |-> None, code |-> 0, content |-> <<>>,
          ret |-> resp]

\* extras.handler_check_ok(resp): what it raises, or the response it
\* returns
handler_check_ok(resp) ==
    IF ~resp.ok
    THEN IF resp.status_code \in {401, 403}
         THEN FabricatorRequestAuthError(resp.status_code, resp.content)
         ELSE FabricatorRequestError(
                  <<"HTTPError during request to ", resp.url>>,
                  resp.status_code, resp.content)
    ELSE [exc |-> "none", message |-> None, code |-> 0, content |-> <<>>,
          ret |-> resp]

\* Responses of the transport: a status code, the transport's own verdict
\* ok, the raw body and the URL requested.
HttpResponses ==
    [status_code : {200, 204, 302, 400, 401, 403, 404, 500},
     ok : BOOLEAN,
     content : {<<>>, <<"{","}">>, <<"n","o">>},
     url : {<<"h","/","x">>, <<"h","/","y">>}]

\* A response has arrived from the transport.
InitCheckOk ==
    /\ nodes = <<InitRoot>>
    /\ calls = 1
    /\ threads = <<>>
    /\ \E resp \in HttpResponses :
          last = Last("response", 1, <<>>, <<>>, <<>>, {<<"resp", resp>>},
                      Returned("pending"))

\* handler_check_ok(resp) is applied to it
CheckOk ==
    /\ calls > 0
    /\ \E a \in last.kwargs :
          last' = [last EXCEPT !.op = "handler_check_ok",
                               !.out = handler_check_ok(a[2])]
    /\ calls' = calls - 1
    /\ UNCHANGED <<nodes, threads>>

NextCheckOk == CheckOk

SpecCheckOk == InitCheckOk /\ [][NextCheckOk]_vars

\* the response handler_check_ok was applied to
Checked == CHOOSE resp \in HttpResponses : <<"resp", resp>> \in last.kwargs

\* C25: handler_check_ok returns the response unchanged when the transport
\* says it is ok; otherwise it raises RequestAuthError with the message
\* 'Authentication failed' exactly when the status is 401 or 403 and plain
\* RequestError for every other status, and either error carries the
\* response's status code and raw body.
C25_CheckOk ==
    last.op = "handler_check_ok" =>
        /\ Checked.ok => last.out.exc = "none" /\ last.out.ret = Checked
        /\ ~Checked.ok
              => /\ last.out.exc = IF Checked.status_code \in {401, 403}
                                   THEN "FabricatorRequestAuthError"
                                   ELSE "FabricatorRequestError"
                 /\ last.out.exc = "FabricatorRequestAuthError"
                       => last.out.message = "Authentication failed"
                 /\ last.out.code = Checked.status_code
                 /\ last.out.content = Checked.content

\* a 403 the transport does not take for a success, with a body
C25_Witness ==
    /\ last.op = "handler_check_ok"
    /\ ~Checked.ok
    /\ Checked.status_code = 403
    /\ Checked.content # <<>>
    /\ last.out.exc = "FabricatorRequestAuthError"
    /\ last.out.message = "Authentication failed"
    /\ last.out.code = 403
    /\ last.out.content = Checked.content

\* the names a builder call registers
RegisteredNames(c) ==
    IF c.op = "standard" THEN {r[1] : r \in StandardRoutes(c.name)}
    ELSE {c.name}

\* the child ch is the one the builder call c registers under the name nm
\* on a tree that had k nodes
IsNewChild(ch, c, nm, k) ==
    /\ ch.name = nm
    /\ ch.parent = c.node
    /\ c.op = "group" => ch.kind = "group" /\ ch.node = k + 1
    /\ c.op = "register"
          => /\ ch.kind = "endpoint"
             /\ ch.path = GetKey(c.kwargs, K_path).s
             /\ ch.methods = [i \in DOMAIN c.methods |->
                                 MEnum(c.methods[i].value)]
    /\ c.op = "shortcut"
          => /\ ch.kind = "endpoint"
             /\ ch.path = GetKey(c.kwargs, K_path).s
             /\ ch.methods = <<MEnum(CanonicalOf(c.item))>>
    /\ c.op = "standard"
          => /\ ch.kind = "endpoint"
             /\ \E r \in StandardRoutes(c.name) :
                   /\ r[1] = nm
                   /\ ch.methods = <<MEnum(r[2])>>
                   /\ ch.path = r[3]

\* C26: a register(), group(), standard() or method shortcut on an
\* unstarted node under a name its children map already holds does not
\* fail; the map has one child for the name, the one just registered, and
\* keeps every other entry as it was; and a lookup of a name after start
\* yields the child the map holds, which is the one registered last.
C26_ReRegistrationReplaces ==
    /\ [][(/\ last'.op \in {"register", "group", "standard", "shortcut"}
           /\ ~is_started(nodes, last'.node)
           /\ last'.op = "shortcut" => IsMethodName(last'.item)
           /\ \A i \in DOMAIN last'.methods :
                 last'.methods[i].value \in HTTPMethodValues
           /\ RegisteredNames(last')
                 \cap DOMAIN nodes[last'.node].endpoints # {})
          => /\ last'.out.exc = "none"
             /\ DOMAIN nodes'[last'.node].endpoints
                   = DOMAIN nodes[last'.node].endpoints
                        \cup RegisteredNames(last')
             /\ \A nm \in DOMAIN nodes[last'.node].endpoints
                             \ RegisteredNames(last') :
                   nodes'[last'.node].endpoints[nm]
                      = nodes[last'.node].endpoints[nm]
             /\ \A nm \in RegisteredNames(last') :
                   IsNewChild(nodes'[last'.node].endpoints[nm], last', nm,
                              Len(nodes))]_vars
    /\ []((/\ last.op = "getattr"
           /\ is_started(nodes, last.node)
           /\ last.name \in DOMAIN nodes[last.node].endpoints)
          => /\ last.out.exc = "none"
             /\ last.out.child = nodes[last.node].endpoints[last.name])

\* after start the name of a group that was registered twice on the root
\* resolves to the second group; the first one is no child any more
C26_Witness ==
    /\ last.op = "getattr"
    /\ last.node = 1
    /\ is_started(nodes, 1)
    /\ last.name = N_y
    /\ Len(nodes) = 3
    /\ nodes[2].parent = 1
    /\ nodes[3].parent = 1
    /\ last.out.child.kind = "group"
    /\ last.out.child.node = 3
    /\ \A nm \in DOMAIN nodes[1].endpoints :
          ~(nodes[1].endpoints[nm].kind = "group"
              /\ nodes[1].endpoints[nm].node = 2)

====
